---- MODULE Spec2Model ----
(***************************************************************************)
(* Model of the AroMi login page script (src/Frontend/script.js).          *)
(*                                                                         *)
(* A JavaScript string that the script inspects character by character     *)
(* (the e-mail and the password) is a sequence of one-character strings;   *)
(* a string that the script only compares as a whole (theme names, labels, *)
(* attribute values, class names) is a TLA+ string.                        *)
(*                                                                         *)
(* localStorage is a function whose DOMAIN is the set of keys present:     *)
(* getItem of a key outside the DOMAIN is JavaScript's null.               *)
(***************************************************************************)
EXTENDS Naturals, Sequences, FiniteSets, TLC

VARIABLES
    localStorage,   \* the persisted key-value store (survives reloads)
    storageMode,    \* "ok" | "denied" (every access throws) | "full" (setItem throws)
    page,           \* "loading" (before DOMContentLoaded) | "ready" | "dashboard"
    dataTheme,      \* document.documentElement's data-theme attribute
    toggleView,     \* sun/moon icon opacity and themeLabel.textContent
    passwordType,   \* passwordInput's type attribute
    passwordIcon,   \* className of the <i> inside passwordToggle
    emailValue,     \* emailInput.value
    passwordValue,  \* passwordInput.value
    rememberMe,     \* document.getElementById('rememberMe').checked
    fadeOut,        \* container.classList contains 'fade-out'
    timers,         \* number of pending setTimeout callbacks of navigateToDashboard
    uncaught,       \* an exception escaped a handler of the current document
    lastOp,         \* history: the handler or event that made the last step
    trace,          \* history: the calls that handler made, in order
    accepted,       \* history: the e-mails validateForm accepted in a submission
    toggleHist,     \* history: renders before the last one / two consecutive toggleTheme calls
    found,          \* history: the form fields as the last quickLogin call found them
    visibilityHist, \* history: password renders before the last one / two consecutive togglePasswordVisibility calls
    probe           \* inputs and result of a direct validateForm application

vars == <<localStorage, storageMode, page, dataTheme, toggleView, passwordType,
          passwordIcon, emailValue, passwordValue, rememberMe, fadeOut, timers,
          uncaught, lastOp, trace, accepted, toggleHist, found, visibilityHist, probe>>

(***************************************************************************)
(* Bounds                                                                  *)
(***************************************************************************)
\* longest string handed to validateForm directly
MaxLen == 5
\* most navigateToDashboard timeouts pending at once
MaxTimers == 2
\* longest password handed to validateForm directly
MaxPasswordLen == 2

(***************************************************************************)
(* Strings                                                                 *)
(***************************************************************************)
Alphabet == {"a", "@", ".", " "}

\* \s of the regular expression, String.prototype.trim's white space
IsSpace(c) == c = " "

SeqsUpTo(S, n) == UNION {[1..k -> S] : k \in 0..n}

RECURSIVE TrimLeft(_)
TrimLeft(s) == IF s # <<>> /\ IsSpace(Head(s)) THEN TrimLeft(Tail(s)) ELSE s

RECURSIVE TrimRight(_)
TrimRight(s) ==
    IF s # <<>> /\ IsSpace(s[Len(s)]) THEN TrimRight(SubSeq(s, 1, Len(s) - 1)) ELSE s

\* String.prototype.trim
Trim(s) == TrimRight(TrimLeft(s))

(***************************************************************************)
(* Pure functions of the script                                            *)
(***************************************************************************)
\* 'hackathon@aromi.ai'
demoEmail == <<"h","a","c","k","a","t","h","o","n","@","a","r","o","m","i",".","a","i">>

\* 'agentic_ai_demo'
demoPassword == <<"a","g","e","n","t","i","c","_","a","i","_","d","e","m","o">>

\* the character class [^\s@]
NotSpaceNorAt(c) == ~IsSpace(c) /\ c # "@"

\* The automaton of /^[^\s@]+@[^\s@]+\.[^\s@]+$/: state 0 is the start (^), 1 is
\* inside the first [^\s@]+, 2 follows '@', 3 is inside the second [^\s@]+,
\* 4 follows the literal '.', 5 is inside the third [^\s@]+ and accepts at $.
\* '.' belongs to [^\s@], so in state 3 a '.' may stay in 3 or move to 4.
RegexStep(q, c) ==
    CASE q = 0 -> IF NotSpaceNorAt(c) THEN {1} ELSE {}
      [] q = 1 -> (IF NotSpaceNorAt(c) THEN {1} ELSE {}) \cup (IF c = "@" THEN {2} ELSE {})
      [] q = 2 -> IF NotSpaceNorAt(c) THEN {3} ELSE {}
      [] q = 3 -> (IF NotSpaceNorAt(c) THEN {3} ELSE {}) \cup (IF c = "." THEN {4} ELSE {})
      [] q = 4 -> IF NotSpaceNorAt(c) THEN {5} ELSE {}
      [] q = 5 -> IF NotSpaceNorAt(c) THEN {5} ELSE {}

RECURSIVE RegexRun(_, _)
RegexRun(Q, s) ==
    IF s = <<>> THEN Q
    ELSE RegexRun(UNION {RegexStep(q, Head(s)) : q \in Q}, Tail(s))

\* the pattern without its '\.[^\s@]+' tail
isValidEmail_NoDot(email) == RegexRun({0}, email) \cap {3, 5} # {}

\* emailRegex.test(email)
isValidEmail(email) == 5 \in RegexRun({0}, email)

\* validateForm without the isValidEmail test
validateForm_NoPattern(email, password) == ~(email = <<>> \/ password = <<>>)

\* validateForm testing !email alone
validateForm_IgnoresPassword(email, password) == email # <<>> /\ isValidEmail(email)

\* validateForm: !email and !password are the empty-string tests
validateForm(email, password) ==
    IF email = <<>> \/ password = <<>> THEN FALSE
    ELSE IF ~isValidEmail(email) THEN FALSE
    ELSE TRUE

\* updateThemeToggle with its test inverted
updateThemeToggle_Inverted(theme) ==
    IF theme = "dark"
    THEN [sun |-> "1", moon |-> "0.5", label |-> "Light Mode"]
    ELSE [sun |-> "0.5", moon |-> "1", label |-> "Dark Mode"]

\* updateThemeToggle: the render it leaves on the toggle
updateThemeToggle(theme) ==
    IF theme = "dark"
    THEN [sun |-> "0.5", moon |-> "1", label |-> "Dark Mode"]
    ELSE [sun |-> "1", moon |-> "0.5", label |-> "Light Mode"]

\* a toggle that can only switch to dark
toggledTheme_AlwaysDark(currentTheme) == "dark"

\* line 21: currentTheme === 'light' ? 'dark' : 'light'
toggledTheme(currentTheme) == IF currentTheme = "light" THEN "dark" ELSE "light"

\* localStorage.getItem(key) !== null
HasItem(key) == key \in DOMAIN localStorage

\* localStorage.setItem(key, value)
setItem(key, value) == (key :> value) @@ localStorage

\* localStorage.removeItem(key)
removeItem(key) == [k \in (DOMAIN localStorage) \ {key} |-> localStorage[k]]

\* localStorage.getItem('theme') || 'light': null and '' are falsy
savedTheme ==
    IF HasItem("theme") /\ localStorage["theme"] # "" THEN localStorage["theme"] ELSE "light"

(***************************************************************************)
(* The environment: what the user can type, and storage left by others     *)
(***************************************************************************)
\* values typed into the e-mail field: empty, blank, a well-formed one that needs trimming,
\* and four malformed ones
EmailInputs ==
    { <<>>, <<" ">>, <<" ", "a", "@", "a", ".", "a", " ">>, <<"a", "@", ".", "a">>,
      <<"a", "@", "a">>, <<"a", ".", "a">>, <<"a", " ", "@", "a", ".", "a">> }

\* values typed into the password field (the password is not trimmed)
PasswordInputs == { <<>>, <<" ">> }

\* values another script of the origin, or the user, may have left under 'theme'
ForeignThemes == {"light", "dark", "", "blue"}

(***************************************************************************)
(* The document as index.html delivers it, before any handler has run      *)
(***************************************************************************)
FreshDocument ==
    /\ dataTheme' = "unset"
    /\ toggleView' = [sun |-> "unset", moon |-> "unset", label |-> "unset"]
    /\ passwordType' = "password"
    /\ passwordIcon' = "fas fa-eye"
    /\ emailValue' = <<>>
    /\ passwordValue' = <<>>
    /\ rememberMe' = FALSE
    /\ fadeOut' = FALSE
    /\ timers' = 0
    /\ uncaught' = FALSE

NoFields == [email |-> <<>>, password |-> <<>>, rememberMe |-> FALSE, seen |-> FALSE]

NoProbe == [email |-> <<>>, password |-> <<>>, done |-> FALSE, result |-> FALSE]

InitDocument ==
    /\ page = "loading"
    /\ dataTheme = "unset"
    /\ toggleView = [sun |-> "unset", moon |-> "unset", label |-> "unset"]
    /\ passwordType = "password"
    /\ passwordIcon = "fas fa-eye"
    /\ emailValue = <<>>
    /\ passwordValue = <<>>
    /\ rememberMe = FALSE
    /\ fadeOut = FALSE
    /\ timers = 0
    /\ uncaught = FALSE
    /\ lastOp = "load"
    /\ trace = <<>>
    /\ accepted = {}
    /\ toggleHist = <<>>
    /\ found = NoFields
    /\ visibilityHist = <<>>

\* first visit: nothing is stored and the store works
Init ==
    /\ InitDocument
    /\ probe = NoProbe
    /\ localStorage = [k \in {} |-> ""]
    /\ storageMode = "ok"

\* a visit in an environment the script does not control: the store may be
\* unavailable or full, and 'theme' may hold a value the script never wrote
InitEnv ==
    /\ InitDocument
    /\ probe = NoProbe
    /\ storageMode \in {"ok", "denied", "full"}
    /\ \/ localStorage = [k \in {} |-> ""]
       \/ \E th \in ForeignThemes : localStorage = [k \in {"theme"} |-> th]

\* a submission that never forgets the stored e-mail
updateRemembered_KeepsOnOptOut(email) ==
    IF rememberMe THEN setItem("rememberedEmail", email) ELSE localStorage

\* a submission that opts out with localStorage.clear()
updateRemembered_ClearsStore(email) ==
    IF rememberMe THEN setItem("rememberedEmail", email) ELSE [k \in {} |-> ""]

\* a submission that remembers the field's value as typed
updateRemembered_Untrimmed(email) ==
    IF rememberMe THEN setItem("rememberedEmail", emailValue) ELSE removeItem("rememberedEmail")

\* lines 104-108: the store after a validated submission
updateRemembered(email) ==
    IF rememberMe THEN setItem("rememberedEmail", email) ELSE removeItem("rememberedEmail")

\* what the last togglePasswordVisibility calls started from
Masking == [type |-> passwordType, icon |-> passwordIcon]

\* what the last toggleTheme calls started from
Render == [pref |-> savedTheme, attr |-> dataTheme, view |-> toggleView]

(***************************************************************************)
(* Handlers                                                                *)
(***************************************************************************)
\* navigateToDashboard without its setTimeout
navigateToDashboard_NoTimeout ==
    /\ fadeOut' = TRUE
    /\ timers' = timers

\* navigateToDashboard: add 'fade-out', schedule the redirect
navigateToDashboard ==
    /\ fadeOut' = TRUE
    /\ timers' = timers + 1

\* the DOMContentLoaded handler pre-filling the e-mail without checking remember-me
initialize_PrefillOnly ==
    /\ page = "loading"
    /\ page' = "ready"
    /\ lastOp' = "initialize"
    /\ toggleHist' = <<>>
    /\ found' = NoFields
    /\ visibilityHist' = <<>>
    /\ IF storageMode = "denied"
       THEN \* line 14 throws: nothing of the handler takes effect
            /\ uncaught' = TRUE
            /\ trace' = <<"initTheme", "throw">>
            /\ UNCHANGED <<dataTheme, toggleView, emailValue, rememberMe>>
       ELSE /\ dataTheme' = savedTheme
            /\ toggleView' = updateThemeToggle(savedTheme)
            /\ trace' = <<"initTheme", "updateThemeToggle">>
            /\ IF HasItem("rememberedEmail") /\ localStorage["rememberedEmail"] # <<>>
               THEN /\ emailValue' = localStorage["rememberedEmail"]
                    /\ UNCHANGED rememberMe
               ELSE UNCHANGED <<emailValue, rememberMe>>
            /\ UNCHANGED uncaught
    /\ UNCHANGED <<localStorage, storageMode, passwordType, passwordIcon, passwordValue,
                   fadeOut, timers, accepted, probe>>

\* the DOMContentLoaded handler (initTheme, then the remembered e-mail)
initialize ==
    /\ page = "loading"
    /\ page' = "ready"
    /\ lastOp' = "initialize"
    /\ toggleHist' = <<>>
    /\ found' = NoFields
    /\ visibilityHist' = <<>>
    /\ IF storageMode = "denied"
       THEN \* line 14 throws: nothing of the handler takes effect
            /\ uncaught' = TRUE
            /\ trace' = <<"initTheme", "throw">>
            /\ UNCHANGED <<dataTheme, toggleView, emailValue, rememberMe>>
       ELSE /\ dataTheme' = savedTheme
            /\ toggleView' = updateThemeToggle(savedTheme)
            /\ trace' = <<"initTheme", "updateThemeToggle">>
            /\ IF HasItem("rememberedEmail") /\ localStorage["rememberedEmail"] # <<>>
               THEN /\ emailValue' = localStorage["rememberedEmail"]
                    /\ rememberMe' = TRUE
               ELSE UNCHANGED <<emailValue, rememberMe>>
            /\ UNCHANGED uncaught
    /\ UNCHANGED <<localStorage, storageMode, passwordType, passwordIcon, passwordValue,
                   fadeOut, timers, accepted, probe>>

\* toggleTheme persisting the theme it read instead of the one it set
toggleTheme_PersistsOld ==
    /\ page = "ready"
    /\ lastOp' = "toggleTheme"
    /\ toggleHist' = IF lastOp = "toggleTheme"
                     THEN <<toggleHist[Len(toggleHist)], Render>>
                     ELSE <<Render>>
    /\ found' = NoFields
    /\ visibilityHist' = <<>>
    /\ LET currentTheme == dataTheme
           newTheme == toggledTheme(currentTheme)
       IN /\ dataTheme' = newTheme
          /\ localStorage' = setItem("theme", currentTheme)
          /\ toggleView' = updateThemeToggle(newTheme)
          /\ trace' = <<"setItem", "updateThemeToggle">>
          /\ UNCHANGED uncaught
    /\ UNCHANGED <<storageMode, page, passwordType, passwordIcon, emailValue,
                   passwordValue, rememberMe, fadeOut, timers, accepted, probe>>

\* toggleTheme, the click handler of themeToggle
toggleTheme ==
    /\ page = "ready"
    /\ lastOp' = "toggleTheme"
    /\ toggleHist' = IF lastOp = "toggleTheme"
                     THEN <<toggleHist[Len(toggleHist)], Render>>
                     ELSE <<Render>>
    /\ found' = NoFields
    /\ visibilityHist' = <<>>
    /\ LET currentTheme == dataTheme
           newTheme == toggledTheme(currentTheme)
       IN /\ dataTheme' = newTheme
          /\ IF storageMode = "ok"
             THEN /\ localStorage' = setItem("theme", newTheme)
                  /\ toggleView' = updateThemeToggle(newTheme)
                  /\ trace' = <<"setItem", "updateThemeToggle">>
                  /\ UNCHANGED uncaught
             ELSE \* line 24 throws after line 23 has taken effect
                  /\ uncaught' = TRUE
                  /\ trace' = <<"throw">>
                  /\ UNCHANGED <<localStorage, toggleView>>
    /\ UNCHANGED <<storageMode, page, passwordType, passwordIcon, emailValue,
                   passwordValue, rememberMe, fadeOut, timers, accepted, probe>>

\* togglePasswordVisibility ignored once the page is fading out
togglePasswordVisibility_BlockedWhileLeaving ==
    /\ page = "ready"
    /\ ~fadeOut
    /\ lastOp' = "togglePasswordVisibility"
    /\ trace' = <<>>
    /\ toggleHist' = <<>>
    /\ found' = NoFields
    /\ visibilityHist' = IF lastOp = "togglePasswordVisibility"
                         THEN <<visibilityHist[Len(visibilityHist)], Masking>>
                         ELSE <<Masking>>
    /\ LET type == IF passwordType = "password" THEN "text" ELSE "password"
       IN /\ passwordType' = type
          /\ passwordIcon' = IF type = "password" THEN "fas fa-eye" ELSE "fas fa-eye-slash"
    /\ UNCHANGED <<localStorage, storageMode, page, dataTheme, toggleView, emailValue,
                   passwordValue, rememberMe, fadeOut, timers, uncaught, accepted, probe>>

\* togglePasswordVisibility choosing the icon from the type it read
togglePasswordVisibility_StaleIcon ==
    /\ page = "ready"
    /\ lastOp' = "togglePasswordVisibility"
    /\ trace' = <<>>
    /\ toggleHist' = <<>>
    /\ found' = NoFields
    /\ visibilityHist' = IF lastOp = "togglePasswordVisibility"
                         THEN <<visibilityHist[Len(visibilityHist)], Masking>>
                         ELSE <<Masking>>
    /\ LET type == IF passwordType = "password" THEN "text" ELSE "password"
       IN /\ passwordType' = type
          /\ passwordIcon' = IF passwordType = "password" THEN "fas fa-eye" ELSE "fas fa-eye-slash"
    /\ UNCHANGED <<localStorage, storageMode, page, dataTheme, toggleView, emailValue,
                   passwordValue, rememberMe, fadeOut, timers, uncaught, accepted, probe>>

\* togglePasswordVisibility, the click handler of passwordToggle
togglePasswordVisibility ==
    /\ page = "ready"
    /\ lastOp' = "togglePasswordVisibility"
    /\ trace' = <<>>
    /\ toggleHist' = <<>>
    /\ found' = NoFields
    /\ visibilityHist' = IF lastOp = "togglePasswordVisibility"
                         THEN <<visibilityHist[Len(visibilityHist)], Masking>>
                         ELSE <<Masking>>
    /\ LET type == IF passwordType = "password" THEN "text" ELSE "password"
       IN /\ passwordType' = type
          /\ passwordIcon' = IF type = "password" THEN "fas fa-eye" ELSE "fas fa-eye-slash"
    /\ UNCHANGED <<localStorage, storageMode, page, dataTheme, toggleView, emailValue,
                   passwordValue, rememberMe, fadeOut, timers, uncaught, accepted, probe>>

\* quickLogin honouring the remember-me control
quickLogin_Remembers ==
    /\ page = "ready"
    /\ timers < MaxTimers
    /\ lastOp' = "quickLogin"
    /\ toggleHist' = <<>>
    /\ found' = [email |-> emailValue, password |-> passwordValue,
                 rememberMe |-> rememberMe, seen |-> TRUE]
    /\ visibilityHist' = <<>>
    /\ emailValue' = demoEmail
    /\ passwordValue' = demoPassword
    /\ localStorage' = IF rememberMe THEN setItem("rememberedEmail", demoEmail)
                                     ELSE localStorage
    /\ navigateToDashboard
    /\ trace' = <<"navigateToDashboard">>
    /\ UNCHANGED <<storageMode, page, dataTheme, toggleView, passwordType,
                   passwordIcon, rememberMe, uncaught, accepted, probe>>

\* quickLogin going through the form's validation of the fields it found
quickLogin_Validates ==
    /\ page = "ready"
    /\ timers < MaxTimers
    /\ lastOp' = "quickLogin"
    /\ toggleHist' = <<>>
    /\ found' = [email |-> emailValue, password |-> passwordValue,
                 rememberMe |-> rememberMe, seen |-> TRUE]
    /\ visibilityHist' = <<>>
    /\ emailValue' = demoEmail
    /\ passwordValue' = demoPassword
    /\ IF validateForm(Trim(emailValue), passwordValue)
       THEN navigateToDashboard /\ trace' = <<"validateForm", "navigateToDashboard">>
       ELSE UNCHANGED <<fadeOut, timers>> /\ trace' = <<"validateForm">>
    /\ UNCHANGED <<localStorage, storageMode, page, dataTheme, toggleView, passwordType,
                   passwordIcon, rememberMe, uncaught, accepted, probe>>

\* quickLogin, the click handler of quickLoginBtn
quickLogin ==
    /\ page = "ready"
    /\ timers < MaxTimers
    /\ lastOp' = "quickLogin"
    /\ toggleHist' = <<>>
    /\ found' = [email |-> emailValue, password |-> passwordValue,
                 rememberMe |-> rememberMe, seen |-> TRUE]
    /\ visibilityHist' = <<>>
    /\ emailValue' = demoEmail
    /\ passwordValue' = demoPassword
    /\ navigateToDashboard
    /\ trace' = <<"navigateToDashboard">>
    /\ UNCHANGED <<localStorage, storageMode, page, dataTheme, toggleView, passwordType,
                   passwordIcon, rememberMe, uncaught, accepted, probe>>

\* the submit handler of loginForm
submitForm ==
    /\ page = "ready"
    /\ lastOp' = "submit"
    /\ toggleHist' = <<>>
    /\ found' = NoFields
    /\ visibilityHist' = <<>>
    /\ LET email == Trim(emailValue)
           password == passwordValue
           valid == validateForm(email, password)
           throws == \/ storageMode = "denied"
                     \/ storageMode = "full" /\ rememberMe
       IN /\ (valid /\ ~throws) => timers < MaxTimers
          /\ accepted' = IF valid THEN accepted \cup {email} ELSE accepted
          /\ IF ~valid
             THEN /\ trace' = <<"validateForm">>
                  /\ UNCHANGED <<localStorage, fadeOut, timers, uncaught>>
             ELSE IF throws
             THEN \* line 105 or 107 throws: navigateToDashboard is not reached
                  /\ uncaught' = TRUE
                  /\ trace' = <<"validateForm", "throw">>
                  /\ UNCHANGED <<localStorage, fadeOut, timers>>
             ELSE /\ localStorage' = updateRemembered(email)
                  /\ navigateToDashboard
                  /\ trace' = <<"validateForm",
                                IF rememberMe THEN "setItem" ELSE "removeItem",
                                "navigateToDashboard">>
                  /\ UNCHANGED uncaught
    /\ UNCHANGED <<storageMode, page, dataTheme, toggleView, passwordType, passwordIcon,
                   emailValue, passwordValue, rememberMe, probe>>

\* the setTimeout callback of navigateToDashboard: the redirect unloads the
\* document, and with it every other pending callback
redirect ==
    /\ page = "ready"
    /\ timers > 0
    /\ page' = "dashboard"
    /\ timers' = 0
    /\ lastOp' = "redirect"
    /\ trace' = <<>>
    /\ toggleHist' = <<>>
    /\ found' = NoFields
    /\ visibilityHist' = <<>>
    /\ UNCHANGED <<localStorage, storageMode, dataTheme, toggleView, passwordType,
                   passwordIcon, emailValue, passwordValue, rememberMe, fadeOut, uncaught,
                   accepted, probe>>

(***************************************************************************)
(* Events of the environment                                               *)
(***************************************************************************)
\* the page is reloaded, or opened again from the dashboard: the document is
\* torn down and a fresh one is loaded; localStorage survives
reload ==
    /\ page # "loading"
    /\ page' = "loading"
    /\ FreshDocument
    /\ lastOp' = "reload"
    /\ trace' = <<>>
    /\ toggleHist' = <<>>
    /\ found' = NoFields
    /\ visibilityHist' = <<>>
    /\ UNCHANGED <<localStorage, storageMode, accepted, probe>>

UserInput ==
    /\ page = "ready"
    /\ lastOp' = "input"
    /\ trace' = <<>>
    /\ toggleHist' = <<>>
    /\ found' = NoFields
    /\ visibilityHist' = <<>>
    /\ UNCHANGED <<localStorage, storageMode, page, dataTheme, toggleView, passwordType,
                   passwordIcon, fadeOut, timers, uncaught, accepted, probe>>

typeEmail(v) == UserInput /\ emailValue' = v /\ UNCHANGED <<passwordValue, rememberMe>>

typePassword(v) == UserInput /\ passwordValue' = v /\ UNCHANGED <<emailValue, rememberMe>>

clickRememberMe == UserInput /\ rememberMe' = ~rememberMe /\ UNCHANGED <<emailValue, passwordValue>>

(***************************************************************************)
(* validateForm applied to arbitrary arguments                             *)
(***************************************************************************)
\* 'user@example.com'
userExample == <<"u","s","e","r","@","e","x","a","m","p","l","e",".","c","o","m">>

ProbeEmails == SeqsUpTo(Alphabet, MaxLen) \cup {userExample}

ProbePasswords == SeqsUpTo({"x", " "}, MaxPasswordLen)

InitValidate ==
    /\ InitDocument
    /\ localStorage = [k \in {} |-> ""]
    /\ storageMode = "ok"
    /\ \E e \in ProbeEmails, pw \in ProbePasswords :
          probe = [email |-> e, password |-> pw, done |-> FALSE, result |-> FALSE]

applyValidateForm ==
    /\ ~probe.done
    /\ probe' = [probe EXCEPT !.done = TRUE,
                              !.result = validateForm(probe.email, probe.password)]
    /\ lastOp' = "validateForm"
    /\ UNCHANGED <<localStorage, storageMode, page, dataTheme, toggleView, passwordType,
                   passwordIcon, emailValue, passwordValue, rememberMe, fadeOut, timers,
                   uncaught, trace, accepted, toggleHist, found, visibilityHist>>

NextValidate == applyValidateForm

SpecValidate == InitValidate /\ [][NextValidate]_vars

Next ==
    \/ initialize
    \/ toggleTheme
    \/ togglePasswordVisibility
    \/ quickLogin
    \/ submitForm
    \/ redirect
    \/ reload
    \/ \E v \in EmailInputs : typeEmail(v)
    \/ \E v \in PasswordInputs : typePassword(v)
    \/ clickRememberMe

Spec == Init /\ [][Next]_vars

\* the same program where the store may fail or hold foreign values
SpecEnv == InitEnv /\ [][Next]_vars

\* setTimeout callbacks of a live document are eventually run
LiveSpec == Init /\ [][Next]_vars /\ WF_vars(redirect)

(***************************************************************************)
(* Claims                                                                  *)
(***************************************************************************)
Stored(key) == localStorage[key]

\* the submission's arguments fail validation as the claim words it: empty
\* trimmed e-mail, empty password, or malformed e-mail
FailsValidation ==
    \/ Trim(emailValue) = <<>>
    \/ passwordValue = <<>>
    \/ ~isValidEmail(Trim(emailValue))

\* the handler of the last step called navigateToDashboard
NavigationTriggered ==
    /\ lastOp \in {"submit", "quickLogin"}
    /\ trace # <<>>
    /\ trace[Len(trace)] = "navigateToDashboard"

\* C1: after a toggleTheme call the value stored under 'theme' is present and
\* equals the data-theme attribute, and whenever the page is ready and a theme
\* is stored the two agree.
C1_PersistedThemeAgrees ==
    /\ lastOp = "toggleTheme" => HasItem("theme") /\ Stored("theme") = dataTheme
    /\ (page = "ready" /\ HasItem("theme")) => Stored("theme") = dataTheme

\* two toggles in a row: the stored theme and the attribute are both 'light' again
C1_Witness ==
    /\ lastOp = "toggleTheme"
    /\ Len(toggleHist) = 2
    /\ HasItem("theme")
    /\ Stored("theme") = "light"
    /\ dataTheme = "light"

\* C2: starting from empty storage, a stored rememberedEmail matches the e-mail
\* pattern and was accepted by validateForm in an earlier form submission.
C2_RememberedEmailWasValidated ==
    HasItem("rememberedEmail") =>
        /\ isValidEmail(Stored("rememberedEmail"))
        /\ Stored("rememberedEmail") \in accepted

\* the demo address is remembered: quick login filled it in and a later
\* form submission validated and stored it
C2_Witness ==
    /\ HasItem("rememberedEmail")
    /\ Stored("rememberedEmail") = demoEmail
    /\ page = "loading"

\* C3: a submission whose trimmed e-mail and password pass validation stores the
\* trimmed e-mail when rememberMe is checked, removes rememberedEmail when it is
\* not, and calls navigateToDashboard after the storage update.
C3_ValidSubmissionPersistsThenNavigates ==
    [][(lastOp' = "submit" /\ ~FailsValidation) =>
          /\ rememberMe =>
                /\ "rememberedEmail" \in DOMAIN localStorage'
                /\ localStorage'["rememberedEmail"] = Trim(emailValue)
                /\ trace' = <<"validateForm", "setItem", "navigateToDashboard">>
          /\ ~rememberMe =>
                /\ "rememberedEmail" \notin DOMAIN localStorage'
                /\ trace' = <<"validateForm", "removeItem", "navigateToDashboard">>
          /\ fadeOut'
          /\ timers' = timers + 1]_vars

\* a submission with rememberMe unchecked has removed an e-mail that was stored:
\* the field holds the trimmed form, which only initialize fills in, from storage
C3_Witness ==
    /\ lastOp = "submit"
    /\ trace = <<"validateForm", "removeItem", "navigateToDashboard">>
    /\ emailValue = <<"a", "@", "a", ".", "a">>
    /\ ~rememberMe
    /\ ~HasItem("rememberedEmail")

\* C4: a submission that fails validation changes neither the store nor the
\* document, applies no fade-out and schedules no navigation, whatever rememberMe is.
C4_InvalidSubmissionIsNoOp ==
    [][(lastOp' = "submit" /\ FailsValidation) =>
          /\ trace' = <<"validateForm">>
          /\ UNCHANGED <<localStorage, fadeOut, timers, page, uncaught, dataTheme,
                         toggleView, passwordType, passwordIcon, emailValue,
                         passwordValue, rememberMe>>]_vars

\* a malformed e-mail was submitted with rememberMe checked and an e-mail stored
C4_Witness ==
    /\ lastOp = "submit"
    /\ trace = <<"validateForm">>
    /\ emailValue = <<"a", "@", "a">>
    /\ passwordValue # <<>>
    /\ rememberMe
    /\ HasItem("rememberedEmail")
    /\ ~fadeOut
    /\ timers = 0

\* the shape the claim gives: [^\s@]+ '@' [^\s@]+ '.' [^\s@]+
HasEmailShape(s) ==
    \E i, j \in 1..Len(s) :
        /\ 1 < i
        /\ i + 1 < j
        /\ j < Len(s)
        /\ s[i] = "@"
        /\ s[j] = "."
        /\ \A k \in 1..Len(s) : k # i => NotSpaceNorAt(s[k])

Contains(s, c) == \E k \in 1..Len(s) : s[k] = c

\* C5: validateForm(email, password) is true exactly when both are non-empty and
\* email has the shape x@y.z; it is false for a non-empty email without '@' or
\* without '.', and true for 'user@example.com' with a non-empty password.
C5_ValidateFormCharacterised ==
    probe.done =>
        /\ probe.result = ( /\ probe.email # <<>>
                            /\ probe.password # <<>>
                            /\ HasEmailShape(probe.email) )
        /\ (probe.email # <<>> /\ ~(Contains(probe.email, "@") /\ Contains(probe.email, ".")))
              => ~probe.result
        /\ (probe.email = userExample /\ probe.password # <<>>) => probe.result

\* validateForm has accepted 'user@example.com' with a blank password
C5_Witness ==
    /\ probe.done
    /\ probe.email = userExample
    /\ probe.password = <<" ">>
    /\ probe.result

\* C6: after initialize the data-theme attribute is 'light' or 'dark', and is
\* 'light' when the stored theme is absent or is neither 'light' nor 'dark'.
C6_InitializeFallsBackToLight ==
    (lastOp = "initialize" /\ storageMode # "denied") =>
        /\ dataTheme \in {"light", "dark"}
        /\ (~HasItem("theme") \/ Stored("theme") \notin {"light", "dark"})
              => dataTheme = "light"

\* C7: with a store that fails, no handler ends with an uncaught exception, and
\* initialize with an unreadable store ends with theme light, the e-mail field
\* empty and remember-me unchecked.
C7_StorageFailureIsAbsence ==
    /\ storageMode # "ok" => ~uncaught
    /\ (storageMode = "denied" /\ lastOp = "initialize") =>
          /\ dataTheme = "light"
          /\ toggleView = updateThemeToggle("light")
          /\ emailValue = <<>>
          /\ ~rememberMe

\* C8: after two toggleTheme calls in a row the theme preference, the root
\* attribute, the icon emphasis and the label are what they were before the first.
C8_ToggleTwiceRestores ==
    (lastOp = "toggleTheme" /\ Len(toggleHist) = 2) => Render = toggleHist[1]

\* two toggles in a row starting from dark
C8_Witness ==
    /\ lastOp = "toggleTheme"
    /\ Len(toggleHist) = 2
    /\ toggleHist[1].attr = "dark"
    /\ toggleHist[2].attr = "light"

\* C9: once navigateToDashboard has been called the redirect eventually happens
\* unless the document is torn down first; no step of a live document removes
\* a pending redirect; and the redirect happens with fade-out applied.
C9_RedirectAlwaysFires ==
    /\ NavigationTriggered ~> (page = "dashboard" \/ page = "loading")
    /\ [][(page = "ready" /\ timers > 0) => (timers' >= timers \/ page' # "ready")]_vars
    /\ [][(page = "ready" /\ page' = "dashboard") => fadeOut]_vars
    /\ [](NavigationTriggered => (fadeOut /\ timers > 0))

\* the redirect has happened after a form submission
C9_Witness ==
    /\ page = "dashboard"
    /\ fadeOut
    /\ lastOp = "redirect"
    /\ HasItem("rememberedEmail")

\* C10: quickLogin calls navigateToDashboard and nothing else, whatever the
\* fields hold, and leaves the demo values in the e-mail and password fields.
C10_QuickLoginAlwaysNavigates ==
    [][lastOp' = "quickLogin" =>
          /\ trace' = <<"navigateToDashboard">>
          /\ fadeOut'
          /\ timers' = timers + 1
          /\ emailValue' = demoEmail
          /\ passwordValue' = demoPassword]_vars

\* quickLogin has navigated although it found a malformed e-mail, an empty
\* password and remember-me checked
C10_Witness ==
    /\ lastOp = "quickLogin"
    /\ trace = <<"navigateToDashboard">>
    /\ found.seen
    /\ found.email = <<"a", "@", "a">>
    /\ found.password = <<>>
    /\ found.rememberMe
    /\ emailValue = demoEmail
    /\ passwordValue = demoPassword
    /\ fadeOut
    /\ timers = 1

\* C11: quickLogin leaves the persisted store as it found it: rememberedEmail and
\* theme keep their values, or their absence, even with remember-me checked.
C11_QuickLoginSkipsPersistence ==
    [][lastOp' = "quickLogin" => localStorage' = localStorage]_vars

\* quickLogin ran with remember-me checked over a store that remembers another
\* e-mail and a theme, and both are still there
C11_Witness ==
    /\ lastOp = "quickLogin"
    /\ found.seen
    /\ found.rememberMe
    /\ rememberMe
    /\ emailValue = demoEmail
    /\ HasItem("rememberedEmail")
    /\ Stored("rememberedEmail") = <<"a", "@", "a", ".", "a">>
    /\ HasItem("theme")
    /\ Stored("theme") = "dark"

\* the redirect is scheduled and has not fired
InRedirectInterval == page = "ready" /\ timers > 0

\* C12: while a redirect is pending the click and submit handlers still run
\* (below MaxTimers pending redirects for those that schedule another), and a
\* handler run in the interval has its effect on the document and the store
\* with the document still live, the redirect still pending and not yet fired.
C12_HandlersRunWhileRedirectPending ==
    /\ [](InRedirectInterval =>
            /\ ENABLED toggleTheme
            /\ ENABLED togglePasswordVisibility
            /\ timers < MaxTimers => (ENABLED quickLogin /\ ENABLED submitForm))
    /\ [][(InRedirectInterval
            /\ lastOp' \in {"toggleTheme", "togglePasswordVisibility", "quickLogin", "submit"}) =>
            /\ page' = "ready"
            /\ fadeOut'
            /\ timers' >= timers
            /\ lastOp' = "toggleTheme" =>
                  /\ dataTheme' # dataTheme
                  /\ toggleView' # toggleView
                  /\ "theme" \in DOMAIN localStorage'
                  /\ localStorage'["theme"] = dataTheme'
            /\ lastOp' = "togglePasswordVisibility" => passwordType' # passwordType
            /\ lastOp' = "quickLogin" =>
                  /\ emailValue' = demoEmail
                  /\ passwordValue' = demoPassword
                  /\ timers' = timers + 1
            /\ (lastOp' = "submit" /\ ~FailsValidation) =>
                  /\ timers' = timers + 1
                  /\ rememberMe =>
                        /\ "rememberedEmail" \in DOMAIN localStorage'
                        /\ localStorage'["rememberedEmail"] = Trim(emailValue)
                  /\ ~rememberMe => "rememberedEmail" \notin DOMAIN localStorage']_vars

\* the password was unmasked while a redirect scheduled by quickLogin is pending
C12_Witness ==
    /\ InRedirectInterval
    /\ fadeOut
    /\ lastOp = "togglePasswordVisibility"
    /\ passwordType = "text"
    /\ passwordValue = demoPassword

\* C13: initialize copies a stored rememberedEmail into the e-mail field and
\* checks remember-me; with an empty store it leaves theme light, the e-mail
\* field empty and remember-me unchecked, and raises nothing.
C13_InitializeRestoresRememberedEmail ==
    lastOp = "initialize" =>
        /\ HasItem("rememberedEmail") =>
              /\ emailValue = Stored("rememberedEmail")
              /\ rememberMe
        /\ DOMAIN localStorage = {} =>
              /\ dataTheme = "light"
              /\ toggleView.label = "Light Mode"
              /\ emailValue = <<>>
              /\ ~rememberMe
              /\ ~uncaught

\* a page load with the demo address remembered
C13_Witness ==
    /\ lastOp = "initialize"
    /\ HasItem("rememberedEmail")
    /\ Stored("rememberedEmail") = demoEmail
    /\ emailValue = demoEmail
    /\ rememberMe

\* the entry stored under 'theme', or its absence
ThemeEntry == IF HasItem("theme") THEN <<TRUE, Stored("theme")>> ELSE <<FALSE, "">>

\* C14: no step other than toggleTheme changes what is stored under 'theme', and
\* toggleTheme stores 'light' or 'dark'.
C14_ThemeMutatedOnlyByToggle ==
    [][/\ lastOp' # "toggleTheme" => ThemeEntry' = ThemeEntry
       /\ lastOp' = "toggleTheme" =>
             /\ "theme" \in DOMAIN localStorage'
             /\ localStorage'["theme"] \in {"light", "dark"}]_vars

\* a submission has removed a remembered e-mail and the stored theme is still dark
C14_Witness ==
    /\ lastOp = "submit"
    /\ trace = <<"validateForm", "removeItem", "navigateToDashboard">>
    /\ emailValue = <<"a", "@", "a", ".", "a">>
    /\ ~HasItem("rememberedEmail")
    /\ HasItem("theme")
    /\ Stored("theme") = "dark"

\* C15: togglePasswordVisibility flips the type between password and text, sets
\* one icon for password and the other for text, leaves the password value, the
\* e-mail field and the store alone; two calls in a row restore type and icon.
C15_PasswordToggleFlipsAndRestores ==
    /\ [][lastOp' = "togglePasswordVisibility" =>
            /\ {passwordType, passwordType'} = {"password", "text"}
            /\ passwordType' = "password" => passwordIcon' = "fas fa-eye"
            /\ passwordType' = "text" => passwordIcon' = "fas fa-eye-slash"
            /\ UNCHANGED <<passwordValue, emailValue, localStorage>>]_vars
    /\ []((lastOp = "togglePasswordVisibility" /\ Len(visibilityHist) = 2) =>
            Masking = visibilityHist[1])

\* two calls in a row, starting unmasked, over a typed password and a remembered e-mail
C15_Witness ==
    /\ lastOp = "togglePasswordVisibility"
    /\ Len(visibilityHist) = 2
    /\ visibilityHist[1] = [type |-> "text", icon |-> "fas fa-eye-slash"]
    /\ visibilityHist[2] = [type |-> "password", icon |-> "fas fa-eye"]
    /\ passwordType = "text"
    /\ passwordValue = <<" ">>
    /\ HasItem("rememberedEmail")

\* C16: once initialize has run, the label reads 'Dark Mode' with the moon icon
\* emphasised exactly when data-theme is 'dark', and 'Light Mode' with the sun
\* icon emphasised exactly when it is 'light'.
C16_ToggleViewMatchesAttribute ==
    page = "ready" =>
        /\ dataTheme \in {"light", "dark"}
        /\ dataTheme = "dark" <=>
              toggleView = [sun |-> "0.5", moon |-> "1", label |-> "Dark Mode"]
        /\ dataTheme = "light" <=>
              toggleView = [sun |-> "1", moon |-> "0.5", label |-> "Light Mode"]

\* initialize with theme 'dark' stored
C16_Witness ==
    /\ lastOp = "initialize"
    /\ HasItem("theme")
    /\ Stored("theme") = "dark"
    /\ dataTheme = "dark"
    /\ toggleView.label = "Dark Mode"

\* the form holds what initialize restores from the store
Prefilled ==
    /\ HasItem("rememberedEmail")
    /\ emailValue = Stored("rememberedEmail")
    /\ rememberMe

\* C17: a remembered e-mail is the trimmed e-mail of the submission that stored
\* it and survives a reload; the next initialize pre-fills exactly it and checks
\* remember-me; submitting that pre-filled form with a non-empty password passes
\* validation and leaves rememberedEmail as it was.
C17_RememberMeRoundTrip ==
    /\ [][(lastOp' = "submit" /\ ~FailsValidation /\ rememberMe) =>
            /\ "rememberedEmail" \in DOMAIN localStorage'
            /\ localStorage'["rememberedEmail"] = Trim(emailValue)]_vars
    /\ [][lastOp' \in {"reload", "initialize"} => localStorage' = localStorage]_vars
    /\ []((lastOp = "initialize" /\ HasItem("rememberedEmail")) => Prefilled)
    /\ [][(lastOp' = "submit" /\ Prefilled /\ passwordValue # <<>>) =>
            /\ trace' = <<"validateForm", "setItem", "navigateToDashboard">>
            /\ localStorage' = localStorage]_vars

\* the pre-filled form was resubmitted with a blank (non-empty) password: the field
\* holds the trimmed form, which only initialize puts there, and it is still stored
C17_Witness ==
    /\ lastOp = "submit"
    /\ trace = <<"validateForm", "setItem", "navigateToDashboard">>
    /\ emailValue = <<"a", "@", "a", ".", "a">>
    /\ passwordValue = <<" ">>
    /\ Prefilled

====
